---- MODULE Spec2Model ----
(***************************************************************************)
(* Model of src/chatbot_app.py: a Streamlit script that loads a product    *)
(* catalog, resolves the selected product, asks a generative backend       *)
(* through a memoised function and keeps a bounded conversation log.       *)
(*                                                                         *)
(* Text is modelled as a sequence of one-character strings (or of longer   *)
(* literal chunks where the code inserts a fixed literal), so that split,  *)
(* strip, case folding and regular-expression search are computed and not  *)
(* assumed.  The script is re-executed top to bottom for every user event; *)
(* pc is the position of the current execution, "Idle" between two         *)
(* executions.  Script-level names (product_data, selected_product,        *)
(* user_question, product_info) do not survive an execution and are       *)
(* unbound between executions; st.session_state['conversation'] and the    *)
(* st.cache_data store do survive.                                         *)
(***************************************************************************)
EXTENDS Integers, Sequences, FiniteSets, TLC

VARIABLES
    default_present,   \* whether 'Merged_Dental_Products.csv' exists on disk
    uploaded_file,     \* value of the file_uploader widget (None or a file name)
    product_data,      \* DataFrame of the current execution (None outside)
    selected_product,  \* value of the selectbox in the current execution
    user_question,     \* value of the text_input in the current execution
    product_info,      \* result of get_product_info in the current execution
    request,           \* prompt of the backend call in flight (None if none)
    conversation,      \* st.session_state['conversation']
    cache,             \* st.cache_data store of cached_generate_chatbot_response
    pc,                \* position of the current execution
    ncalls,            \* history: backend calls issued, per (record, question)
    generated,         \* history: what the backend calls produced, and for what
    answered,          \* history: every (question, answer) ever appended
    outcome,           \* history: how the current answer was obtained
    run_start          \* history: session state when the current execution began

vars == <<default_present, uploaded_file, product_data, selected_product,
          user_question, product_info, request, conversation, cache, pc,
          ncalls, generated, answered, outcome, run_start>>

None == "None"
\* the values a script-level name has while it is not bound
NoData == [columns |-> {}, rows |-> <<>>]
NoText == <<None>>
NoRow == [c \in {None} |-> None]
NoRequest == <<None>>
NoSnapshot == <<>>

----------------------------------------------------------------------------
(* Bounds of the model.                                                    *)

\* answered submissions explored in a session
MaxAnswered == 3
\* backend calls explored in a session
MaxCalls == 2
\* answered submissions explored in the log-only session (must exceed MAX_HISTORY)
MaxLogAnswered == 7
\* rows of a catalog drawn for the resolver on its own
MaxRows == 3

----------------------------------------------------------------------------
(* Text helpers: str.lower / re.IGNORECASE, str.strip, str.split(':')[0].  *)

LowerChar(c) ==
    CASE c = "A" -> "a"
      [] c = "B" -> "b"
      [] c = "Q" -> "q"
      [] OTHER -> c

IsSpace(c) == c = " "

RECURSIVE LStrip(_)
LStrip(s) ==
    IF s # <<>> /\ IsSpace(Head(s)) THEN LStrip(Tail(s)) ELSE s

RECURSIVE RStrip(_)
RStrip(s) ==
    IF s # <<>> /\ IsSpace(s[Len(s)]) THEN RStrip(SubSeq(s, 1, Len(s) - 1)) ELSE s

Strip(s) == RStrip(LStrip(s))

\* desc.split(':')[0]: the text before the first ':' (all of it if there is none)
RECURSIVE BeforeColon(_)
BeforeColon(s) ==
    IF s = <<>> \/ Head(s) = ":" THEN <<>> ELSE <<Head(s)>> \o BeforeColon(Tail(s))

----------------------------------------------------------------------------
(* Series.str.contains(pat, case=False, na=False): pat is compiled as a    *)
(* regular expression (regex=True is the default) with re.IGNORECASE and   *)
(* searched anywhere in the value.  Over the alphabet of the model the     *)
(* metacharacters are '.', '$' and ')'.                                    *)

\* re.compile raises re.error on an unbalanced parenthesis
RegexCompiles(pat) == \A k \in 1..Len(pat) : pat[k] # ")"

RECURSIVE MatchAt(_, _, _)
MatchAt(pat, s, i) ==
    IF pat = <<>> THEN TRUE
    ELSE LET h == Head(pat) IN
         IF h = "$"
         THEN i = Len(s) + 1 /\ MatchAt(Tail(pat), s, i)
         ELSE /\ i <= Len(s)
              /\ (h = "." \/ LowerChar(h) = LowerChar(s[i]))
              /\ MatchAt(Tail(pat), s, i + 1)

str_contains(s, pat) == \E i \in 1..(Len(s) + 1) : MatchAt(pat, s, i)

Min(S) == CHOOSE x \in S : \A y \in S : x <= y
Max(S) == CHOOSE x \in S : \A y \in S : y <= x

----------------------------------------------------------------------------
(* Datasets.  A DataFrame is its set of columns and its rows in file order; *)
(* a row maps each column to a value.  Descriptions are character          *)
(* sequences, the other fields are opaque texts.                           *)

required_columns == {"Descripcion", "Instrucciones de Uso", "Ventajas", "Presentacion"}

Row(d, i, v, p) ==
    [c \in required_columns |->
        CASE c = "Descripcion" -> d
          [] c = "Instrucciones de Uso" -> i
          [] c = "Ventajas" -> v
          [] c = "Presentacion" -> p]

\* "Ab : x", "a: x", "a$: x", "b): x"
DescAb == <<"A", "b", " ", ":", " ", "x">>
DescA == <<"a", ":", " ", "x">>
DescEnd == <<"a", "$", ":", " ", "x">>
DescParen == <<"b", ")", ":", " ", "x">>

RowAb == Row(DescAb, "i1", "v1", "p1")
RowA == Row(DescA, "i2", "v2", "p2")
RowEnd == Row(DescEnd, "i3", "v3", "p3")
RowParen == Row(DescParen, "i4", "v4", "p4")
\* the description of RowAb with other content
RowAbOther == Row(DescAb, "i1", "v9", "p1")

DefaultCsv == "Merged_Dental_Products.csv"
UploadCsv == "upload.csv"
\* one uploaded file per missing required column
BadCsv(c) == "no " \o c \o ".csv"
BadCsvs == {BadCsv(c) : c \in required_columns}
MissingColumn(file_path) == CHOOSE c \in required_columns : file_path = BadCsv(c)

Restrict(row, cols) == [c \in cols |-> row[c]]

\* pd.read_csv of each file of the model
read_csv(file_path) ==
    CASE file_path = DefaultCsv ->
            [columns |-> required_columns, rows |-> <<RowAb, RowA, RowEnd>>]
      [] file_path = UploadCsv ->
            [columns |-> required_columns, rows |-> <<RowAbOther, RowParen>>]
      [] file_path \in BadCsvs ->
            LET cols == required_columns \ {MissingColumn(file_path)} IN
            [columns |-> cols, rows |-> <<Restrict(RowA, cols)>>]

\* what the user may put in the file_uploader
Uploads == {None, UploadCsv} \cup BadCsvs

load_product_data(file_path) ==
    LET df == read_csv(file_path) IN
    IF required_columns \subseteq df.columns
    THEN [ok |-> TRUE, df |-> df, error |-> None]
    ELSE [ok |-> FALSE, df |-> NoData, error |-> "ValueError"]

FileNotFound == [ok |-> FALSE, df |-> NoData, error |-> "FileNotFoundError"]

\* variant: a rejected upload falls back to the default file
LoadCatalog_Fallback(uploaded, present) ==
    IF uploaded # None /\ load_product_data(uploaded).ok THEN load_product_data(uploaded)
    ELSE IF ~present THEN FileNotFound
    ELSE load_product_data(DefaultCsv)

\* section 5 of the script: the uploaded file if any, else the default file
LoadCatalog(uploaded, present) ==
    IF uploaded # None THEN load_product_data(uploaded)
    ELSE IF ~present THEN FileNotFound
    ELSE load_product_data(DefaultCsv)

product_names(data) ==
    [k \in 1..Len(data.rows) |-> Strip(BeforeColon(data.rows[k]["Descripcion"]))]

----------------------------------------------------------------------------
(* get_product_info: the rows whose description contains the name, the     *)
(* first of them as a dict, None if there is none; re.error propagates.    *)

MatchingRows(product_name, data) ==
    {k \in 1..Len(data.rows) : str_contains(data.rows[k]["Descripcion"], product_name)}

\* variant: the last matching row instead of the first
get_product_info_last(product_name, data) ==
    IF ~RegexCompiles(product_name) THEN [kind |-> "raise", row |-> NoRow]
    ELSE LET product_row == MatchingRows(product_name, data) IN
         IF product_row # {}
         THEN [kind |-> "found", row |-> data.rows[Max(product_row)]]
         ELSE [kind |-> "none", row |-> NoRow]

get_product_info(product_name, data) ==
    IF ~RegexCompiles(product_name) THEN [kind |-> "raise", row |-> NoRow]
    ELSE LET product_row == MatchingRows(product_name, data) IN
         IF product_row # {}
         THEN [kind |-> "found", row |-> data.rows[Min(product_row)]]
         ELSE [kind |-> "none", row |-> NoRow]

----------------------------------------------------------------------------
(* cached_generate_chatbot_response under st.cache_data.                   *)

\* variant: the entry is keyed by the description and the question only
CacheKey_ByDescription(info, question) == <<info["Descripcion"], question>>

\* st.cache_data keys an entry by the hash of the argument values
CacheKey(info, question) == <<info, question>>

\* variant: the advantages rendered before the usage instructions
BuildPrompt_Reordered(info, question) ==
    <<"Eres un asistente dental especializado ... en espanol.\n\n",
      "**Descripcion del Producto**: ">> \o info["Descripcion"] \o
    <<"\n", "**Ventajas**: ", info["Ventajas"],
      "\n", "**Instrucciones de Uso**: ", info["Instrucciones de Uso"],
      "\n", "**Presentacion**: ", info["Presentacion"],
      "\n\n", "**Pregunta del Usuario**: ">> \o question \o
    <<"\n", "**Respuesta**:">>

BuildPrompt(info, question) ==
    <<"Eres un asistente dental especializado ... en espanol.\n\n",
      "**Descripcion del Producto**: ">> \o info["Descripcion"] \o
    <<"\n", "**Instrucciones de Uso**: ", info["Instrucciones de Uso"],
      "\n", "**Ventajas**: ", info["Ventajas"],
      "\n", "**Presentacion**: ", info["Presentacion"],
      "\n\n", "**Pregunta del Usuario**: ">> \o question \o
    <<"\n", "**Respuesta**:">>

\* texts the backend may return as message content
Contents == {<<" ", "y", " ">>, <<"n">>}
\* exceptions the call may raise; "AttributeError" is the .strip() of a missing content
Causes == {"timeout", "AttributeError"}

SuccessAnswer(content) == Strip(content)
\* variant: the diagnostic without the cause
FailureAnswer_NoCause(e) == <<"Ocurrio un error al procesar tu solicitud: ">>

FailureAnswer(e) == <<"Ocurrio un error al procesar tu solicitud: ", e>>

\* variant: a store of one entry (max_entries=1), the newest
Stored_SingleEntry(c, key, value) == (key :> value)

\* what st.cache_data keeps of a call that returned value
Stored(c, key, value) == (key :> value) @@ c

MAX_HISTORY == 5

\* variant: pop() instead of pop(0)
Trim_Newest(conv) ==
    IF Len(conv) > MAX_HISTORY THEN SubSeq(conv, 1, Len(conv) - 1) ELSE conv

\* variant: >= instead of >
Trim_AtBound(conv) == IF Len(conv) >= MAX_HISTORY THEN Tail(conv) ELSE conv

\* lines 159-160
Trim(conv) == IF Len(conv) > MAX_HISTORY THEN Tail(conv) ELSE conv

\* what the user may type in the text_input
Questions == {<<>>, <<" ">>, <<"q">>, <<"Q">>}

Calls(k) == IF k \in DOMAIN ncalls THEN ncalls[k] ELSE 0
RECURSIVE SumCalls(_)
SumCalls(K) == IF K = {} THEN 0 ELSE LET k == CHOOSE x \in K : TRUE IN ncalls[k] + SumCalls(K \ {k})
TotalCalls == SumCalls(DOMAIN ncalls)

----------------------------------------------------------------------------
(* The session.                                                            *)

NoOutcome == [kind |-> "none", cause |-> None]

Init ==
    /\ default_present \in BOOLEAN
    /\ uploaded_file = None
    /\ product_data = NoData
    /\ selected_product = NoText
    /\ user_question = NoText
    /\ product_info = NoRow
    /\ request = NoRequest
    /\ conversation = <<>>
    /\ cache = <<>>
    /\ pc = "Idle"
    /\ ncalls = <<>>
    /\ generated = {}
    /\ answered = <<>>
    /\ outcome = NoOutcome
    /\ run_start = NoSnapshot

Session == <<conversation, cache, ncalls, answered>>

\* an execution whose catalog load fails: sidebar.error and st.stop() (lines 113-127)
LoadFail(f) ==
    /\ pc = "Idle"
    /\ ~LoadCatalog(f, default_present).ok
    /\ uploaded_file' = f
    /\ pc' = "Stopped"
    /\ run_start' = Session
    /\ UNCHANGED <<default_present, product_data, selected_product, user_question,
                   product_info, request, conversation, cache, ncalls, generated, answered, outcome>>

\* an execution triggered by a widget change, the button not pressed (line 144
\* false): the catalog is loaded and the widgets are read (lines 136-139), the
\* i-th product selected and q typed
Rerun(f, i, q) ==
    /\ pc = "Idle"
    /\ LoadCatalog(f, default_present).ok
    /\ LET data == LoadCatalog(f, default_present).df IN
       /\ i \in DOMAIN product_names(data)
       /\ uploaded_file' = f
       /\ product_data' = data
       /\ selected_product' = product_names(data)[i]
    /\ user_question' = q
    /\ pc' = "NoButton"
    /\ run_start' = Session
    /\ UNCHANGED <<default_present, product_info, request, conversation, cache,
                   ncalls, generated, answered, outcome>>

\* the button pressed with the i-th product selected and q typed (lines 136-148)
Submit(f, i, q) ==
    /\ pc = "Idle"
    /\ LoadCatalog(f, default_present).ok
    /\ LET data == LoadCatalog(f, default_present).df IN
       /\ i \in DOMAIN product_names(data)
       /\ uploaded_file' = f
       /\ product_data' = data
       /\ selected_product' = product_names(data)[i]
    /\ user_question' = q
    /\ pc' = IF q = <<>> THEN "Warned" ELSE "Resolving"
    /\ run_start' = Session
    /\ UNCHANGED <<default_present, product_info, request, conversation, cache,
                   ncalls, generated, answered, outcome>>

\* line 149, the three ways get_product_info can end
Resolve ==
    /\ pc = "Resolving"
    /\ LET r == get_product_info(selected_product, product_data) IN
       \/ /\ r.kind = "found"
          /\ product_info' = r.row
          /\ pc' = "Resolved"
       \/ /\ r.kind = "none"
          /\ product_info' = NoRow
          /\ pc' = "NotFound"
       \/ /\ r.kind = "raise"
          /\ product_info' = NoRow
          /\ pc' = "Crashed"
    /\ UNCHANGED <<default_present, uploaded_file, product_data, selected_product,
                   user_question, request, conversation, cache, ncalls, generated,
                   answered, outcome, run_start>>

\* line 153, the call: st.cache_data looks the key up; on a miss the function body
\* runs, builds the prompt and issues the backend call (lines 75-95)
EnterGenerate ==
    /\ pc = "Resolved"
    /\ pc' = "Generating"
    /\ LET key == CacheKey(product_info, user_question)
           k == <<product_info, user_question>> IN
       IF key \in DOMAIN cache
       THEN UNCHANGED <<request, ncalls>>
       ELSE /\ request' = BuildPrompt(product_info, user_question)
            /\ ncalls' = (k :> (Calls(k) + 1)) @@ ncalls
    /\ UNCHANGED <<default_present, uploaded_file, product_data, selected_product,
                   user_question, product_info, conversation, cache, generated,
                   answered, outcome, run_start>>

\* variant: an entry equal to the newest one is not appended again
Answer_Dedup(value, how) ==
    /\ conversation' =
          IF conversation # <<>> /\ conversation[Len(conversation)] = <<user_question, value>>
          THEN conversation
          ELSE Append(conversation, <<user_question, value>>)
    /\ answered' = Append(answered, <<user_question, value>>)
    /\ outcome' = how
    /\ request' = NoRequest
    /\ pc' = "Answered"
    /\ UNCHANGED <<default_present, uploaded_file, product_data, selected_product,
                   user_question, product_info, ncalls, run_start>>

\* variant: the entry is appended twice
Answer_AppendsTwice(value, how) ==
    /\ conversation' = conversation \o <<(<<user_question, value>>), (<<user_question, value>>)>>
    /\ answered' = answered \o <<(<<user_question, value>>), (<<user_question, value>>)>>
    /\ outcome' = how
    /\ request' = NoRequest
    /\ pc' = "Answered"
    /\ UNCHANGED <<default_present, uploaded_file, product_data, selected_product,
                   user_question, product_info, ncalls, run_start>>

\* lines 153-155 once the answer is known
Answer(value, how) ==
    /\ conversation' = Append(conversation, <<user_question, value>>)
    /\ answered' = Append(answered, <<user_question, value>>)
    /\ outcome' = how
    /\ request' = NoRequest
    /\ pc' = "Answered"
    /\ UNCHANGED <<default_present, uploaded_file, product_data, selected_product,
                   user_question, product_info, ncalls, run_start>>

Generated(value, ok) ==
    [info |-> product_info, question |-> user_question, value |-> value, ok |-> ok]

\* a cache hit: the stored value is returned, the function body does not run
CacheHit ==
    /\ pc = "Generating"
    /\ request = NoRequest
    /\ UNCHANGED <<cache, generated>>
    /\ Answer(cache[CacheKey(product_info, user_question)], [kind |-> "hit", cause |-> None])

\* the backend returns content (line 96); the returned value is stored
BackendSuccess(content) ==
    /\ pc = "Generating"
    /\ request # NoRequest
    /\ cache' = Stored(cache, CacheKey(product_info, user_question), SuccessAnswer(content))
    /\ generated' = generated \cup {Generated(SuccessAnswer(content), TRUE)}
    /\ Answer(SuccessAnswer(content), [kind |-> "ok", cause |-> None])

\* the call raises (lines 97-98); the function returns the diagnostic text, which
\* st.cache_data stores like any returned value
BackendFailure(e) ==
    /\ pc = "Generating"
    /\ request # NoRequest
    /\ cache' = Stored(cache, CacheKey(product_info, user_question), FailureAnswer(e))
    /\ generated' = generated \cup {Generated(FailureAnswer(e), FALSE)}
    /\ Answer(FailureAnswer(e), [kind |-> "fail", cause |-> e])

ClearRun ==
    /\ uploaded_file' = None
    /\ product_data' = NoData
    /\ selected_product' = NoText
    /\ user_question' = NoText
    /\ product_info' = NoRow
    /\ outcome' = NoOutcome
    /\ run_start' = NoSnapshot

\* variant: the not-found message is also appended to the log
FinishRun_LogsNotFound ==
    /\ pc \in {"NoButton", "Warned", "NotFound", "Answered"}
    /\ conversation' =
          Trim(IF pc = "NotFound"
               THEN Append(conversation, <<user_question, <<"no encontrada">>>>)
               ELSE conversation)
    /\ pc' = "Idle"
    /\ ClearRun
    /\ UNCHANGED <<default_present, request, cache, ncalls, generated, answered>>

\* lines 157-171: the trim and the display end the execution
FinishRun ==
    /\ pc \in {"NoButton", "Warned", "NotFound", "Answered"}
    /\ conversation' = Trim(conversation)
    /\ pc' = "Idle"
    /\ ClearRun
    /\ UNCHANGED <<default_present, request, cache, ncalls, generated, answered>>

\* st.stop() or an uncaught exception: the rest of the script is skipped
AbortRun ==
    /\ pc \in {"Stopped", "Crashed"}
    /\ pc' = "Idle"
    /\ ClearRun
    /\ UNCHANGED <<default_present, request, conversation, cache, ncalls, generated,
                   answered>>

\* the steps the script takes on its own once an execution has begun
RunStep ==
    \/ Resolve
    \/ EnterGenerate
    \/ CacheHit
    \/ \E content \in Contents : BackendSuccess(content)
    \/ \E e \in Causes : BackendFailure(e)
    \/ FinishRun
    \/ AbortRun

\* the submission stays within the explored number of answers and backend calls
WithinBounds(f, i, q, maxAnswered, maxCalls) ==
    /\ Len(answered) < maxAnswered
    /\ LET ld == LoadCatalog(f, default_present) IN
       (ld.ok /\ i \in DOMAIN product_names(ld.df) /\ q # <<>>) =>
           LET r == get_product_info(product_names(ld.df)[i], ld.df) IN
           r.kind = "found" =>
               (CacheKey(r.row, q) \in DOMAIN cache \/ TotalCalls < maxCalls)

Next ==
    \/ \E f \in Uploads : LoadFail(f)
    \/ \E f \in Uploads, i \in 1..MaxRows, q \in Questions : Rerun(f, i, q)
    \/ \E f \in Uploads, i \in 1..MaxRows, q \in Questions :
          Submit(f, i, q) /\ WithinBounds(f, i, q, MaxAnswered, MaxCalls)
    \/ RunStep

Spec == Init /\ [][Next]_vars

\* the script runs to its end once started, and the backend returns or fails
FairSpec == Spec /\ WF_vars(RunStep)

----------------------------------------------------------------------------
(* A long session on the default catalog, to fill the log past its bound:  *)
(* the first and the third product, no question or one of two questions.   *)

InitLog == Init /\ default_present

LogQuestions == {<<>>, <<"q">>, <<"Q">>}

NextLog ==
    \/ LoadFail(BadCsv("Ventajas"))
    \/ \E i \in {1, 3}, q \in LogQuestions : Rerun(None, i, q)
    \/ \E i \in {1, 3}, q \in LogQuestions :
          Submit(None, i, q) /\ WithinBounds(None, i, q, MaxLogAnswered, MaxCalls)
    \/ RunStep

SpecLog == InitLog /\ [][NextLog]_vars

----------------------------------------------------------------------------
(* get_product_info on its own: any catalog of at most MaxRows rows and    *)
(* any of the names the selectbox offers for it.                           *)

\* "b: a", a description that ends in "a"
DescB == <<"b", ":", " ", "a">>
RowB == Row(DescB, "i5", "v5", "p5")

RowPool == {RowAb, RowA, RowEnd, RowParen, RowAbOther, RowB}

RECURSIVE SeqsUpTo(_, _)
SeqsUpTo(S, n) ==
    IF n = 0 THEN {<<>>}
    ELSE LET shorter == SeqsUpTo(S, n - 1) IN
         shorter \cup {Append(t, x) : t \in {u \in shorter : Len(u) = n - 1}, x \in S}

InitResolver ==
    /\ default_present = TRUE
    /\ uploaded_file = UploadCsv
    /\ \E rows \in SeqsUpTo(RowPool, MaxRows) \ {<<>>} :
          /\ product_data = [columns |-> required_columns, rows |-> rows]
          /\ \E i \in 1..Len(rows) : selected_product = product_names(product_data)[i]
    /\ user_question = <<"q">>
    /\ product_info = NoRow
    /\ request = NoRequest
    /\ conversation = <<>>
    /\ cache = <<>>
    /\ pc = "Resolving"
    /\ ncalls = <<>>
    /\ generated = {}
    /\ answered = <<>>
    /\ outcome = NoOutcome
    /\ run_start = Session

NextResolver == Resolve

SpecResolver == InitResolver /\ [][NextResolver]_vars

----------------------------------------------------------------------------
(* cached_generate_chatbot_response entered on a miss: any record of the   *)
(* pool, with or without a fifth column, any question, in a fresh session  *)
(* or in one that already holds an answer for another pair.                *)

\* a row of a file that has one more column
WithColumn(row, col, value) == (col :> value) @@ row

PromptRows == RowPool \cup {WithColumn(r, "Precio", "9") : r \in RowPool}

PriorKey == <<RowB, <<" ">>>>
PriorAnswer == <<"y">>

InitPrompt ==
    /\ default_present = TRUE
    /\ uploaded_file = UploadCsv
    /\ product_info \in PromptRows
    /\ product_data = [columns |-> DOMAIN product_info, rows |-> <<product_info>>]
    /\ selected_product = product_names(product_data)[1]
    /\ user_question \in Questions \ {<<>>}
    /\ <<product_info, user_question>> # PriorKey
    /\ request = NoRequest
    /\ pc = "Resolved"
    /\ outcome = NoOutcome
    /\ \/ /\ conversation = <<>>
          /\ cache = <<>>
          /\ ncalls = <<>>
          /\ generated = {}
       \/ /\ conversation = <<(<<PriorKey[2], PriorAnswer>>)>>
          /\ cache = (CacheKey(PriorKey[1], PriorKey[2]) :> PriorAnswer)
          /\ ncalls = (PriorKey :> 1)
          /\ generated = {[info |-> PriorKey[1], question |-> PriorKey[2],
                           value |-> PriorAnswer, ok |-> TRUE]}
    /\ answered = conversation
    /\ run_start = Session

NextPrompt == EnterGenerate

SpecPrompt == InitPrompt /\ [][NextPrompt]_vars

----------------------------------------------------------------------------
(* Properties.                                                             *)

Last(q) == q[Len(q)]
LastN(q, n) == SubSeq(q, Len(q) - n + 1, Len(q))
Range(f) == {f[x] : x \in DOMAIN f}
InRun == pc # "Idle"
Blank(q) == Strip(q) = <<>>
Key == <<product_info, user_question>>

\* C1: when the backend call made for a (record, question) fails, the cache
\* holds no entry for that key afterwards (so that the next submission with
\* the same record and question calls the backend again).
C1_NoPoisoning ==
    (pc = "Answered" /\ outcome.kind = "fail") =>
        CacheKey(product_info, user_question) \notin DOMAIN cache

\* C2: once a backend call for a (record, question) has succeeded, the cache
\* keeps that answer for good, no later step issues another backend call for
\* the pair, and every later call for the pair appends that same answer.
C2_CacheCorrect ==
    [][\A g \in {x \in generated : x.ok} :
          LET k == <<g.info, g.question>> IN
          /\ CacheKey(g.info, g.question) \in DOMAIN cache'
          /\ cache'[CacheKey(g.info, g.question)] = g.value
          /\ Calls(k)' = Calls(k)
          /\ (pc = "Generating" /\ Key = k) =>
                (/\ pc' = "Answered"
                 /\ outcome'.kind = "hit"
                 /\ conversation' = Append(conversation, <<g.question, g.value>>))]_vars

\* a pair answered from the cache after a submission for another pair intervened
C2_Witness ==
    /\ pc = "Answered"
    /\ outcome.kind = "hit"
    /\ Len(answered) = 3
    /\ answered[1] = answered[3]
    /\ answered[2][1] # answered[1][1]
    /\ \E g \in generated : g.ok /\ <<g.info, g.question>> = Key

\* C3: between executions the conversation log is exactly the last
\* min(N, MAX_HISTORY) of the N pairs appended so far, in their order.
C3_BoundedLog ==
    pc = "Idle" =>
        /\ Len(conversation) <= MAX_HISTORY
        /\ conversation =
              LastN(answered, IF Len(answered) < MAX_HISTORY THEN Len(answered)
                              ELSE MAX_HISTORY)

\* two entries were evicted and the log holds different entries
C3_Witness ==
    /\ pc = "Idle"
    /\ Len(answered) = MAX_HISTORY + 2
    /\ conversation[1] # conversation[2]
    /\ answered[1] # answered[2]

\* C4: a submission (an execution with the button pressed) whose question is
\* empty or blank is reported as a warning; it issues no backend call, adds no
\* cache entry and appends nothing.
C4_EmptyInput ==
    (InRun /\ pc # "NoButton" /\ user_question # NoText /\ Blank(user_question)) =>
        (pc = "Warned" /\ request = NoRequest /\ Session = run_start)

\* C5: a submission whose selection resolves to no record reports the error
\* and ends leaving the log, the cache and the backend calls as they were
\* when the execution began.
C5_NotFound ==
    [][pc = "NotFound" =>
          /\ Session = run_start
          /\ request = NoRequest
          /\ pc' = "Idle"
          /\ Session' = Session]_vars

\* a not-found submission with a full log and a populated cache
C5_Witness ==
    /\ pc = "NotFound"
    /\ Len(conversation) = MAX_HISTORY
    /\ cache # <<>>

\* C6: get_product_info returns the first row, in catalog order, among the
\* rows that match the selection, and None exactly when no row matches.
C6_TieBreak ==
    (pc \in {"Resolved", "NotFound"}) =>
        LET M == MatchingRows(selected_product, product_data) IN
        /\ pc = "NotFound" <=> M = {}
        /\ pc = "Resolved" =>
              \E k \in M : /\ product_info = product_data.rows[k]
                           /\ \A j \in M : k <= j

\* several rows match, the first and the last of them differ
C6_Witness ==
    /\ pc = "Resolved"
    /\ LET M == MatchingRows(selected_product, product_data) IN
       /\ Cardinality(M) >= 2
       /\ product_data.rows[Min(M)] # product_data.rows[Max(M)]

\* C7: a failing backend call ends the call with a diagnostic text that embeds
\* the cause; the submission appends (question, diagnostic) and the execution
\* ends normally, after which the session goes on.
C7_FailureIsValue ==
    [][/\ pc = "Generating" =>
            /\ pc' = "Answered"
            /\ Len(conversation') = Len(conversation) + 1
            /\ Last(conversation')[1] = user_question
            /\ outcome'.kind = "fail" =>
                  /\ Len(Last(conversation')[2]) = 2
                  /\ Last(conversation')[2][1] = "Ocurrio un error al procesar tu solicitud: "
                  /\ Last(conversation')[2][2] = outcome'.cause
                  /\ outcome'.cause \in Causes
       /\ pc = "Answered" => pc' = "Idle"]_vars

\* a submission answered normally after an earlier one got the diagnostic
C7_Witness ==
    /\ pc = "Answered"
    /\ outcome.kind = "ok"
    /\ Len(answered) = 2
    /\ answered[1][2] = <<"Ocurrio un error al procesar tu solicitud: ", "AttributeError">>

\* C8: an execution whose dataset lacks a required column stops at the load:
\* no catalog, selection, resolution or backend call exists in it, and it
\* ends leaving the session as it was.
C8_LoadValidation ==
    [][(InRun /\ uploaded_file # None
              /\ ~(required_columns \subseteq read_csv(uploaded_file).columns)) =>
          /\ pc = "Stopped"
          /\ product_data = NoData
          /\ selected_product = NoText
          /\ product_info = NoRow
          /\ request = NoRequest
          /\ Session = run_start
          /\ pc' = "Idle"
          /\ Session' = Session]_vars

\* a failed load in a session that already holds answers
C8_Witness ==
    /\ pc = "Stopped"
    /\ uploaded_file = BadCsv("Instrucciones de Uso")
    /\ Len(conversation) = 2

\* C9: the steps of an execution are those of the submission state machine:
\* from Resolving only to NotFound or Resolved, from Resolved to Generating,
\* from Generating to Answered, and from NotFound or Answered back to Idle;
\* a backend call is in flight only in Generating and the log grows only on
\* the step to Answered, by one entry.
AllowedStep ==
    \/ pc = "Idle" /\ pc' \in {"Idle", "Stopped", "NoButton", "Warned", "Resolving"}
    \/ pc \in {"Stopped", "NoButton", "Warned"} /\ pc' = "Idle"
    \/ pc = "Resolving" /\ pc' \in {"NotFound", "Resolved"}
    \/ pc = "NotFound" /\ pc' = "Idle"
    \/ pc = "Resolved" /\ pc' = "Generating"
    \/ pc = "Generating" /\ pc' = "Answered"
    \/ pc = "Answered" /\ pc' = "Idle"

C9_StateMachine ==
    [][/\ AllowedStep
       /\ request' # NoRequest => pc' = "Generating"
       /\ answered' # answered =>
             (pc' = "Answered" /\ Len(answered') = Len(answered) + 1)]_vars

\* C10: an answer served from the cache was generated for the same record
\* content and the same question text, and every answered (record, question)
\* has had a backend call of its own.
C10_KeySoundness ==
    pc = "Answered" =>
        /\ Calls(Key) >= 1
        /\ \E g \in generated :
              /\ g.info = product_info
              /\ g.question = user_question
              /\ g.value = Last(conversation)[2]

\* the same question in both letter cases on one record, with answers of their own
C10_Witness ==
    /\ pc = "Answered"
    /\ outcome.kind = "hit"
    /\ user_question = <<"Q">>
    /\ <<product_info, <<"q">>>> \in DOMAIN cache
    /\ cache[<<product_info, <<"q">>>>] # cache[<<product_info, <<"Q">>>>]

\* C11: the prompt of a backend call is the fixed instruction, then the
\* description, the usage instructions, the advantages and the presentation
\* of the record in that order, then the question and the answer marker;
\* it depends on nothing else (other columns, the log, earlier submissions).
C11_PromptDeterminism ==
    request # NoRequest =>
        request =
            <<"Eres un asistente dental especializado ... en espanol.\n\n",
              "**Descripcion del Producto**: ">>
            \o product_info["Descripcion"]
            \o <<"\n", "**Instrucciones de Uso**: ", product_info["Instrucciones de Uso"]>>
            \o <<"\n", "**Ventajas**: ", product_info["Ventajas"]>>
            \o <<"\n", "**Presentacion**: ", product_info["Presentacion"]>>
            \o <<"\n\n", "**Pregunta del Usuario**: ">>
            \o user_question
            \o <<"\n", "**Respuesta**:">>

\* a call for a record with a fifth column, in a session that holds an answer
C11_Witness ==
    /\ pc = "Generating"
    /\ request # NoRequest
    /\ "Precio" \in DOMAIN product_info
    /\ conversation # <<>>

\* C12: a submission answered from the cache appends its own entry to the
\* log, also when the newest entry already is that question with that
\* answer: the log of the execution is its log at the start plus one entry.
C12_NoDedup ==
    (pc = "Answered" /\ outcome.kind = "hit") =>
        /\ Len(conversation) = Len(run_start[1]) + 1
        /\ conversation =
              Append(run_start[1],
                     <<user_question, cache[CacheKey(product_info, user_question)]>>)
        /\ answered = Append(run_start[4], Last(conversation))

\* the same product and question answered twice in a row, the second from the cache
C12_Witness ==
    /\ pc = "Answered"
    /\ outcome.kind = "hit"
    /\ Len(conversation) = 2
    /\ conversation[1] = conversation[2]
    /\ Calls(Key) = 1
    /\ Cardinality(DOMAIN cache) = 1

\* C13: an execution without a button press, with an empty question or with
\* a selection that is not found ends with the log exactly as it was when
\* the execution began; only an execution that appended an entry removes one.
C13_TrimOnlyAfterAppend ==
    [][/\ pc \in {"NoButton", "Warned", "NotFound"} =>
            /\ conversation = run_start[1]
            /\ conversation' = conversation
            /\ pc' = "Idle"
       /\ Len(conversation') < Len(conversation) => pc = "Answered"]_vars

\* an empty question submitted while the log is full
C13_Witness ==
    /\ pc = "Warned"
    /\ user_question = <<>>
    /\ Len(conversation) = MAX_HISTORY
    /\ Len(answered) > MAX_HISTORY

\* C14: every name the selection list offers resolves to a record, and to a
\* record that name was derived from (the text before the first ':' of its
\* description, stripped).
C14_NameResolvesToItsRecord ==
    (pc \in {"Resolved", "NotFound", "Crashed"}) =>
        /\ pc = "Resolved"
        /\ Strip(BeforeColon(product_info["Descripcion"])) = selected_product

====
